---- MODULE Spec2Model ----
(***************************************************************************)
(* Rendering / replay life cycle of the ANM6 environment                   *)
(* (gym_anm/envs/anm6_env/anm6.py) and the case-format header tables of    *)
(* gym_smartgrid/constants.py.                                             *)
(*                                                                         *)
(* Every public method (render, replay, close) is one atomic action; the   *)
(* private helpers (_init_render, _update_render, _unpack_history) are     *)
(* operators on a record holding the object's fields and the outside world *)
(* (running visualisation servers, files on disk).  Numbers are naturals,  *)
(* text is a sequence of one-character strings, so that str()/to_csv and   *)
(* ast.literal_eval/strptime are real conversions.                         *)
(***************************************************************************)
EXTENDS Integers, Sequences, FiniteSets, TLC

(* ------------------------------ bounds --------------------------------- *)

\* number of env.step() calls explored
MaxSteps == 1

\* number of rows Update may append to one in-memory record
MaxRows == 2

\* number of visualisation server pairs ever started
MaxServers == 1

(* --------------------------- program constants ------------------------- *)

\* delta_t = 15 (minutes between two time steps)
timestep_length == 15

\* render_mode is None or a mode name; a path argument is None or a path
None == "None"

\* no exception was raised
NoExc == "NoExc"

\* the simulation time after reset(), in minutes
T0 == 1440

\* Python values carry their type: a float, a list, a str, a datetime, NaN
PyNum(n) == <<"num", n>>
PyList(items) == <<"list", items>>
PyStr(text) == <<"str", text>>
PyTime(t) == <<"time", t>>
NaN == <<"nan">>
PyNone == <<"None">>
Frame(rows) == <<"frame", rows>>
Server(id) == <<"server", id>>

\* list(xs) of an array of numbers
ListOfNums(xs) == PyList([i \in 1..Len(xs) |-> PyNum(xs[i])])

\* [list(xs) for xs in xss]
ListOfLists(xss) == PyList([i \in 1..Len(xss) |-> ListOfNums(xss[i])])

\* type(self).__name__
title == PyStr(<<"A", "N", "M", "6">>)

ValidModes == {"human", "replay", "save"}

\* mode arguments tried by the callers; "video" stands for any unsupported one
Modes == ValidModes \cup {"video"}

\* destination / source paths tried by the callers
Paths == {"h.csv"}

(* ------------------------- case-format headers ------------------------- *)

headers_bus == <<"BUS_I", "BUS_TYPE", "GS", "BS", "VMAX", "VMIN">>

headers_dev == <<"BUS_I", "DEV_TYPE", "Q/P", "QMAX", "QMIN",
                 "DEV_STATUS", "PMAX", "PMIN", "PC1", "PC2", "QC1MIN",
                 "QC1MAX", "QC2MIN", "QC2MAX", "SOC_MAX", "EFF">>

headers_branch == <<"F_BUS", "T_BUS", "BR_R", "BR_X", "BR_B", "RATE_A",
                    "TAP", "SHIFT", "BR_STATUS", "ANGMIN", "ANGMAX">>

\* range(n): the sequence 0, 1, ..., n-1
range(n) == [i \in 1..n |-> i - 1]

\* zip(keys, vals): the pairs up to the shorter length
zip(keys, vals) ==
    LET n == IF Len(keys) < Len(vals) THEN Len(keys) ELSE Len(vals)
    IN  [i \in 1..n |-> <<keys[i], vals[i]>>]

\* dict(pairs): a later pair with the same key overwrites an earlier one
dict(pairs) ==
    LET keys == {pairs[i][1] : i \in 1..Len(pairs)}
        last(k) == CHOOSE i \in 1..Len(pairs) :
                      /\ pairs[i][1] = k
                      /\ \A j \in 1..Len(pairs) : pairs[j][1] = k => j <= i
    IN  [k \in keys |-> pairs[last(k)][2]]

\* mutation: the indices are counted from 1
BUS_H_from_one == dict(zip(headers_bus, [i \in 1..Len(headers_bus) |-> i]))

BUS_H == dict(zip(headers_bus, range(Len(headers_bus))))

DEV_H == dict(zip(headers_dev, range(Len(headers_dev))))

BRANCH_H == dict(zip(headers_branch, range(Len(headers_branch))))

\* the three tables by name, with the list each was built from
Tables == {"BUS_H", "DEV_H", "BRANCH_H"}

TableOf(t) == IF t = "BUS_H" THEN BUS_H ELSE IF t = "DEV_H" THEN DEV_H ELSE BRANCH_H

HeadersOf(t) ==
    IF t = "BUS_H" THEN headers_bus
    ELSE IF t = "DEV_H" THEN headers_dev ELSE headers_branch

(* ------------------------- text conversions ---------------------------- *)

DigitChars == <<"0", "1", "2", "3", "4", "5", "6", "7", "8", "9">>

IsDigit(c) == \E d \in 1..10 : DigitChars[d] = c

DigitVal(c) == (CHOOSE d \in 1..10 : DigitChars[d] = c) - 1

\* str(n) of a number
RECURSIVE StrNat(_)
StrNat(n) == IF n < 10 THEN <<DigitChars[n + 1]>>
             ELSE StrNat(n \div 10) \o <<DigitChars[(n % 10) + 1]>>

\* two decimal digits, zero padded (%d, %H, %M, %S)
TwoDigits(n) == <<DigitChars[(n \div 10) + 1], DigitChars[(n % 10) + 1]>>

\* str(datetime): "DD HH:MM:SS"; a time is a number of minutes
StrTime(t) ==
    TwoDigits(t \div 1440) \o <<" ">> \o TwoDigits((t % 1440) \div 60)
        \o <<":">> \o TwoDigits(t % 60) \o <<":">> \o TwoDigits(0)

\* str(v) of a Python value: "[1, [2, 3]]" for a nested list
RECURSIVE Str(_)
RECURSIVE StrItems(_, _)
Str(v) ==
    IF v[1] = "num" THEN StrNat(v[2])
    ELSE IF v[1] = "list" THEN <<"[">> \o StrItems(v[2], 1) \o <<"]">>
    ELSE IF v[1] = "time" THEN StrTime(v[2])
    ELSE IF v[1] = "str" THEN v[2]
    ELSE <<"n", "a", "n">>

StrItems(l, i) ==
    IF i > Len(l) THEN <<>>
    ELSE IF i = Len(l) THEN Str(l[i])
    ELSE Str(l[i]) \o <<",", " ">> \o StrItems(l, i + 1)

\* ast.literal_eval(text) for the same grammar; a parse step returns the value
\* read and the position after it
RECURSIVE ParseNat(_, _, _)
ParseNat(t, i, acc) ==
    IF i <= Len(t) /\ IsDigit(t[i])
    THEN ParseNat(t, i + 1, acc * 10 + DigitVal(t[i]))
    ELSE [val |-> PyNum(acc), next |-> i]

SkipBlank(t, i) == IF i <= Len(t) /\ t[i] = " " THEN i + 1 ELSE i

RECURSIVE ParseValue(_, _)
RECURSIVE ParseItems(_, _, _)
ParseValue(t, i) ==
    IF t[i] = "[" THEN ParseItems(t, i + 1, <<>>) ELSE ParseNat(t, i, 0)

ParseItems(t, i, acc) ==
    IF t[i] = "]" THEN [val |-> PyList(acc), next |-> i + 1]
    ELSE IF t[i] = "," THEN ParseItems(t, SkipBlank(t, i + 1), acc)
    ELSE LET r == ParseValue(t, i)
         IN  ParseItems(t, r.next, Append(acc, r.val))

literal_eval(v) == ParseValue(v[2], 1).val

TwoVal(t, i) == DigitVal(t[i]) * 10 + DigitVal(t[i + 1])

\* datetime.strptime(text, format) for the format str(datetime) writes
strptime(v) ==
    PyTime(TwoVal(v[2], 1) * 1440 + TwoVal(v[2], 4) * 60 + TwoVal(v[2], 7))

(* ------------------------ tabular record and file ---------------------- *)

Columns == {"title", "specs", "time", "state_values", "potential", "costs"}

\* pd.Series(d) as a row of a frame with all six columns: absent ones are NaN
Row(d) == [c \in Columns |-> IF c \in DOMAIN d THEN d[c] ELSE NaN]

\* DataFrame.to_csv: every cell as text, NaN as the empty field
to_csv(frame) ==
    [i \in 1..Len(frame) |->
        [c \in Columns |-> IF frame[i][c][1] = "nan" THEN <<>> ELSE Str(frame[i][c])]]

\* pd.read_csv: the empty field is NaN, any other field of these columns a str
read_csv(text) ==
    [i \in 1..Len(text) |->
        [c \in Columns |-> IF text[i][c] = <<>> THEN NaN ELSE PyStr(text[i][c])]]

\* series[1:].values
Tail1(frame, c) == [i \in 1..(Len(frame) - 1) |-> frame[i + 1][c]]

(* ------------------------------- state --------------------------------- *)

VARIABLES
    time,             \* self.time
    state,            \* self.state[s] for s in RENDERED_STATE_VALUES
    P_gen_potential,  \* self.P_gen_potential
    e_loss,           \* self.e_loss
    penalty,          \* self.penalty
    render_mode,      \* self.render_mode
    render_history,   \* self.render_history
    http_server,      \* self.http_server
    ws_server,        \* self.ws_server
    running,          \* the server pairs that are up
    started,          \* how many server pairs were ever started
    files,            \* the files on disk: path -> csv text
    recorded,         \* for each file, the frame it was written from
    log,              \* the _update_render calls since the last _init_render
    n_renders,        \* the render calls that returned since the last _init_render
    op,               \* the last public call and its arguments
    calls,            \* the helper / library calls the last public call made
    raised,           \* the exception the last public call raised, or NoExc
    ret,              \* the value the last public call returned
    lookup            \* the last table look-up

envvars == <<time, state, P_gen_potential, e_loss, penalty>>

vars == <<time, state, P_gen_potential, e_loss, penalty, render_mode,
          render_history, http_server, ws_server, running, started, files,
          recorded, log, n_renders, op, calls, raised, ret, lookup>>

\* self.network_specs[s] for s in RENDERED_NETWORK_SPECS
network_specs == <<<<10, 2>>, <<3>>>>

\* the simulation state step() and reset() produce at a given time: the
\* trajectory is fixed, and every time step differs from the one before
EnvAt(t) ==
    LET k == (t - T0) \div timestep_length
    IN  [state |-> <<<<k + 1, 2>>, <<10 * k>>>>, P_gen_potential |-> <<k + 4>>,
         e_loss |-> 3 * k, penalty |-> 9 - k]

\* the object and the world around it, as one value the methods transform
Cur ==
    [time |-> time, state |-> state, P_gen_potential |-> P_gen_potential,
     e_loss |-> e_loss, penalty |-> penalty, render_mode |-> render_mode,
     render_history |-> render_history, http_server |-> http_server,
     ws_server |-> ws_server, running |-> running, started |-> started,
     files |-> files, recorded |-> recorded, log |-> log,
     n_renders |-> n_renders, calls |-> <<>>, raised |-> NoExc,
     ret |-> PyNone]

Raise(s, exc) == [s EXCEPT !.raised = exc]

Call(s, c) == [s EXCEPT !.calls = Append(@, c)]

(* --------------- the visualisation server library (rendering) ---------- *)

\* rendering.start(title, *specs): a new server pair comes up
rendering_start(s, ttl, specs) ==
    LET id == s.started + 1
    IN  [Call(s, [call |-> "rendering.start", server |-> id, title |-> ttl,
                  specs |-> specs])
            EXCEPT !.started = id, !.running = @ \cup {id}]

\* rendering.update(address, time, *state_values, potential, costs): one
\* message to the server at that address, which must be up
rendering_update(s, address, cur_time, state_values, P_potential, costs) ==
    IF address \in s.running
    THEN Call(s, [call |-> "rendering.update", server |-> address,
                  time |-> cur_time, state_values |-> state_values,
                  potential |-> P_potential, costs |-> costs])
    ELSE Raise(s, "ConnectionError")

\* rendering.close(http_server, ws_server): the pair goes down
rendering_close(s, http, ws) ==
    [Call(s, [call |-> "rendering.close", server |-> ws])
        EXCEPT !.running = @ \ {http, ws}]

\* ANMEnv.reset(): the simulation starts again; rendering is left alone
reset(s) ==
    [s EXCEPT !.time = T0, !.state = EnvAt(T0).state,
              !.P_gen_potential = EnvAt(T0).P_gen_potential,
              !.e_loss = EnvAt(T0).e_loss, !.penalty = EnvAt(T0).penalty]

(* ------------------------------ ANM6 helpers --------------------------- *)

_init_render(s, specs) ==
    LET s0 == [Call(s, [call |-> "_init_render", mode |-> s.render_mode,
                        specs |-> specs])
                  EXCEPT !.log = <<>>, !.n_renders = 0]
    IN  IF s.render_mode \in {"human", "replay"}
        THEN LET s1 == rendering_start(s0, title, specs)
             IN  [s1 EXCEPT !.http_server = Server(s1.started),
                            !.ws_server = Server(s1.started)]
        ELSE IF s.render_mode = "save"
        THEN [s0 EXCEPT !.render_history =
                            Frame(<<Row([title |-> title, specs |-> specs])>>)]
        ELSE Raise(s, "NotImplementedError")

\* the ghost log keeps the arguments of every call that returned
Logged(s, cur_time, state_values, P_potential, costs) ==
    [s EXCEPT !.log = Append(@, [cur_time |-> cur_time, time |-> PyTime(s.time),
                                 state_values |-> state_values,
                                 potential |-> P_potential, costs |-> costs])]

\* mutation: in save mode every update also writes the record to a file
_update_render_autosave(s, cur_time, state_values, P_potential, costs) ==
    IF s.render_mode = "save" /\ s.render_history[1] = "frame"
    THEN LET d == [time |-> PyTime(s.time), state_values |-> state_values,
                   potential |-> P_potential, costs |-> costs]
             rows == Append(s.render_history[2], Row(d))
             s1 == [Call(s, [call |-> "_update_render", mode |-> s.render_mode,
                             time |-> cur_time, state_values |-> state_values,
                             potential |-> P_potential, costs |-> costs])
                       EXCEPT !.render_history = Frame(rows),
                              !.files = ("h.csv" :> to_csv(rows)) @@ @,
                              !.recorded = ("h.csv" :> Frame(rows)) @@ @]
         IN  Logged(s1, cur_time, state_values, P_potential, costs)
    ELSE IF s.render_mode \in {"human", "replay"} /\ s.ws_server[1] # "None"
    THEN LET s1 == rendering_update(s, s.ws_server[2], cur_time, state_values,
                                    P_potential, costs)
         IN  IF s1.raised # NoExc THEN s1
             ELSE Logged(s1, cur_time, state_values, P_potential, costs)
    ELSE Raise(s, "AttributeError")

_update_render(s, cur_time, state_values, P_potential, costs) ==
    LET s0 == Call(s, [call |-> "_update_render", mode |-> s.render_mode,
                       time |-> cur_time, state_values |-> state_values,
                       potential |-> P_potential, costs |-> costs])
    IN  IF s.render_mode \in {"human", "replay"}
        THEN IF s.ws_server[1] = "None"
             THEN Raise(s0, "AttributeError")
             ELSE LET s1 == rendering_update(s0, s.ws_server[2], cur_time,
                                             state_values, P_potential, costs)
                  IN  IF s1.raised # NoExc THEN s1
                      ELSE Logged(s1, cur_time, state_values, P_potential, costs)
        ELSE IF s.render_mode = "save"
        THEN IF s.render_history[1] = "None"
             THEN Raise(s0, "AttributeError")
             ELSE LET d == [time |-> PyTime(s.time),
                            state_values |-> state_values,
                            potential |-> P_potential, costs |-> costs]
                      s1 == [s0 EXCEPT !.render_history =
                                           Frame(Append(@[2], Row(d)))]
                  IN  Logged(s1, cur_time, state_values, P_potential, costs)
        ELSE Raise(s0, "NotImplementedError")

_unpack_history(history) ==
    [ns |-> literal_eval(history[1].specs),
     state_values |-> [i \in 1..(Len(history) - 1) |->
                          literal_eval(Tail1(history, "state_values")[i])],
     p_potential |-> [i \in 1..(Len(history) - 1) |->
                          literal_eval(Tail1(history, "potential")[i])],
     times |-> [i \in 1..(Len(history) - 1) |->
                          strptime(Tail1(history, "time")[i])],
     costs |-> PyList([i \in 1..(Len(history) - 1) |->
                          literal_eval(Tail1(history, "costs")[i])])]

(* ------------------------------ ANM6 methods --------------------------- *)

RECURSIVE render(_, _)

\* mutation: an initialized session switches to the mode it is given
render_switch(s, mode) ==
    IF s.render_mode = None
    THEN IF mode \notin ValidModes
         THEN Raise(s, "NotImplementedError")
         ELSE LET s1 == IF mode = "save"
                        THEN [s EXCEPT !.render_history = PyNone] ELSE s
                  s2 == [s1 EXCEPT !.render_mode = mode]
                  s3 == _init_render(s2, ListOfLists(network_specs))
              IN  IF s3.raised # NoExc THEN s3 ELSE render(s3, mode)
    ELSE LET s1 == IF mode \in ValidModes
                   THEN [s EXCEPT !.render_mode = mode] ELSE s
         IN  _update_render(s1, PyTime(s.time - timestep_length),
                            ListOfLists(s.state), ListOfNums(s.P_gen_potential),
                            ListOfNums(<<s.e_loss, s.penalty>>))

\* mutation: the first call initializes and does not render the initial state
render_no_initial(s, mode) ==
    IF s.render_mode = None
    THEN IF mode \notin ValidModes
         THEN Raise(s, "NotImplementedError")
         ELSE LET s1 == IF mode = "save"
                        THEN [s EXCEPT !.render_history = PyNone] ELSE s
                  s2 == [s1 EXCEPT !.render_mode = mode]
              IN  _init_render(s2, ListOfLists(network_specs))
    ELSE _update_render(s, PyTime(s.time - timestep_length),
                        ListOfLists(s.state), ListOfNums(s.P_gen_potential),
                        ListOfNums(<<s.e_loss, s.penalty>>))

\* mutation: the mode is stored before it is validated
render_stores_mode_first(s, mode) ==
    IF s.render_mode = None
    THEN LET s2 == [s EXCEPT !.render_mode = mode]
         IN  IF mode \notin ValidModes
             THEN Raise(s2, "NotImplementedError")
             ELSE LET s3 == _init_render(
                               IF mode = "save"
                               THEN [s2 EXCEPT !.render_history = PyNone] ELSE s2,
                               ListOfLists(network_specs))
                  IN  IF s3.raised # NoExc THEN s3 ELSE render(s3, mode)
    ELSE _update_render(s, PyTime(s.time - timestep_length),
                        ListOfLists(s.state), ListOfNums(s.P_gen_potential),
                        ListOfNums(<<s.e_loss, s.penalty>>))

render(s, mode) ==
    IF s.render_mode = None
    THEN IF mode \notin ValidModes
         THEN Raise(s, "NotImplementedError")
         ELSE LET s1 == IF mode = "save"
                        THEN [s EXCEPT !.render_history = PyNone] ELSE s
                  s2 == [s1 EXCEPT !.render_mode = mode]
                  s3 == _init_render(s2, ListOfLists(network_specs))
              IN  IF s3.raised # NoExc THEN s3 ELSE render(s3, mode)
    ELSE _update_render(s, PyTime(s.time - timestep_length),
                        ListOfLists(s.state), ListOfNums(s.P_gen_potential),
                        ListOfNums(<<s.e_loss, s.penalty>>))

\* mutation: without a path the record is dropped silently
close_no_raise(s, path) ==
    LET s1 == IF s.render_mode \in {"human", "replay"}
                  /\ s.http_server[1] # "None" /\ s.ws_server[1] # "None"
              THEN rendering_close(s, s.http_server[2], s.ws_server[2])
              ELSE s
        s2 == IF s1.render_mode = "save" /\ path # None
              THEN [Call(s1, [call |-> "to_csv", path |-> path])
                       EXCEPT !.files = (path :> to_csv(s1.render_history[2])) @@ @,
                              !.recorded = (path :> s1.render_history) @@ @,
                              !.ret = s1.render_history]
              ELSE s1
    IN  [s2 EXCEPT !.render_mode = None]

\* mutation: the record is written and not returned
close_returns_none(s, path) ==
    LET s1 == IF s.render_mode \in {"human", "replay"}
                  /\ s.http_server[1] # "None" /\ s.ws_server[1] # "None"
              THEN rendering_close(s, s.http_server[2], s.ws_server[2])
              ELSE s
    IN  IF s1.render_mode = "save" /\ path = None
        THEN Raise(s1, "ValueError")
        ELSE LET s2 == IF s1.render_mode = "save"
                       THEN [Call(s1, [call |-> "to_csv", path |-> path])
                                EXCEPT !.files = (path :> to_csv(s1.render_history[2])) @@ @,
                                       !.recorded = (path :> s1.render_history) @@ @]
                       ELSE s1
             IN  [s2 EXCEPT !.render_mode = None]

\* mutation: the mode is cleared before the path is checked
close_clears_mode_first(s, path) ==
    LET s1 == IF s.render_mode \in {"human", "replay"}
              THEN IF s.http_server[1] = "None" \/ s.ws_server[1] = "None"
                   THEN Raise(s, "AttributeError")
                   ELSE rendering_close(s, s.http_server[2], s.ws_server[2])
              ELSE s
    IN  IF s1.raised # NoExc THEN s1
        ELSE IF s1.render_mode = "save" /\ path = None
        THEN Raise([s1 EXCEPT !.render_mode = None], "ValueError")
        ELSE LET s2 == IF s1.render_mode = "save"
                       THEN [Call(s1, [call |-> "to_csv", path |-> path])
                                EXCEPT !.files = (path :> to_csv(s1.render_history[2])) @@ @,
                                       !.recorded = (path :> s1.render_history) @@ @,
                                       !.ret = s1.render_history]
                       ELSE s1
             IN  [s2 EXCEPT !.render_mode = None]

\* mutation: the path is required whatever the render mode is
close_requires_path(s, path) ==
    IF path = None THEN Raise(s, "ValueError")
    ELSE LET s1 == IF s.render_mode \in {"human", "replay"}
                      /\ s.http_server[1] # "None" /\ s.ws_server[1] # "None"
                   THEN rendering_close(s, s.http_server[2], s.ws_server[2])
                   ELSE s
             s2 == IF s1.render_mode = "save"
                   THEN [Call(s1, [call |-> "to_csv", path |-> path])
                            EXCEPT !.files = (path :> to_csv(s1.render_history[2])) @@ @,
                                   !.recorded = (path :> s1.render_history) @@ @,
                                   !.ret = s1.render_history]
                   ELSE s1
         IN  [s2 EXCEPT !.render_mode = None]

close(s, path) ==
    LET s1 == IF s.render_mode \in {"human", "replay"}
              THEN IF s.http_server[1] = "None" \/ s.ws_server[1] = "None"
                   THEN Raise(s, "AttributeError")
                   ELSE rendering_close(s, s.http_server[2], s.ws_server[2])
              ELSE s
    IN  IF s1.raised # NoExc THEN s1
        ELSE IF s1.render_mode = "save" /\ path = None
        THEN Raise(s1, "ValueError")
        ELSE LET s2 == IF s1.render_mode = "save"
                       THEN [Call(s1, [call |-> "to_csv", path |-> path])
                                EXCEPT !.files = (path :> to_csv(s1.render_history[2])) @@ @,
                                       !.recorded = (path :> s1.render_history) @@ @,
                                       !.ret = s1.render_history]
                       ELSE s1
             IN  [s2 EXCEPT !.render_mode = None]

\* for i in range(len(obs)): self._update_render(times[i], obs[i], p_pot[i], costs, ...)
RECURSIVE replay_loop(_, _, _)
replay_loop(s, u, i) ==
    IF i > Len(u.state_values) \/ s.raised # NoExc THEN s
    ELSE replay_loop(_update_render(s, u.times[i], u.state_values[i],
                                    u.p_potential[i], u.costs),
                     u, i + 1)

\* mutation: the replay ends without closing
replay_no_close(s, path) ==
    LET s2 == [reset(s) EXCEPT !.render_mode = "replay"]
    IN  IF path \notin DOMAIN s2.files
        THEN Raise(s2, "FileNotFoundError")
        ELSE LET u == _unpack_history(read_csv(s2.files[path]))
                 s3 == _init_render(s2, u.ns)
             IN  IF s3.raised # NoExc THEN s3 ELSE replay_loop(s3, u, 1)

replay(s, path) ==
    LET s1 == reset(s)
        s2 == [s1 EXCEPT !.render_mode = "replay"]
    IN  IF path \notin DOMAIN s2.files
        THEN Raise(s2, "FileNotFoundError")
        ELSE LET history == read_csv(s2.files[path])
                 u == _unpack_history(history)
                 s3 == _init_render(s2, u.ns)
                 s4 == IF s3.raised # NoExc THEN s3 ELSE replay_loop(s3, u, 1)
             IN  IF s4.raised # NoExc THEN s4
                 ELSE close(s4, None)

(* ------------------------------- actions ------------------------------- *)

NoFiles == [p \in {} |-> <<>>]

NoLookup == [table |-> None, a |-> None, b |-> None, ia |-> 0, ib |-> 0]

Init ==
    /\ time = T0
    /\ state = EnvAt(T0).state
    /\ P_gen_potential = EnvAt(T0).P_gen_potential
    /\ e_loss = EnvAt(T0).e_loss
    /\ penalty = EnvAt(T0).penalty
    /\ render_mode = None
    /\ render_history = PyNone
    /\ http_server = PyNone
    /\ ws_server = PyNone
    /\ running = {}
    /\ started = 0
    /\ files = NoFiles
    /\ recorded = NoFiles
    /\ log = <<>>
    /\ n_renders = 0
    /\ op = [name |-> "init", arg |-> None, pre |-> None]
    /\ calls = <<>>
    /\ raised = NoExc
    /\ ret = PyNone
    /\ lookup = NoLookup

\* the explored part of the state space
Within(r) == r.started <= MaxServers /\ Len(r.log) <= MaxRows

\* the object and the world become r, the outcome of the public call o
Commit(r, o) ==
    /\ Within(r)
    /\ time' = r.time
    /\ state' = r.state
    /\ P_gen_potential' = r.P_gen_potential
    /\ e_loss' = r.e_loss
    /\ penalty' = r.penalty
    /\ render_mode' = r.render_mode
    /\ render_history' = r.render_history
    /\ http_server' = r.http_server
    /\ ws_server' = r.ws_server
    /\ running' = r.running
    /\ started' = r.started
    /\ files' = r.files
    /\ recorded' = r.recorded
    /\ log' = r.log
    /\ n_renders' = IF o.name = "render" /\ r.raised = NoExc
                    THEN r.n_renders + 1 ELSE r.n_renders
    /\ op' = o
    /\ calls' = r.calls
    /\ raised' = r.raised
    /\ ret' = r.ret
    /\ UNCHANGED lookup

Render(mode) ==
    Commit(render(Cur, mode), [name |-> "render", arg |-> mode, pre |-> render_mode])

Close(path) ==
    Commit(close(Cur, path), [name |-> "close", arg |-> path, pre |-> render_mode])

Replay(path) ==
    Commit(replay(Cur, path), [name |-> "replay", arg |-> path, pre |-> render_mode])

\* ANMEnv.step(): the simulation moves one time step on
Step ==
    /\ time < T0 + MaxSteps * timestep_length
    /\ time' = time + timestep_length
    /\ state' = EnvAt(time').state
    /\ P_gen_potential' = EnvAt(time').P_gen_potential
    /\ e_loss' = EnvAt(time').e_loss
    /\ penalty' = EnvAt(time').penalty
    /\ UNCHANGED <<render_mode, render_history, http_server, ws_server, running,
                   started, files, recorded, log, n_renders, op, calls, raised,
                   ret, lookup>>

DoRender == \E mode \in Modes : Render(mode)

DoClose == \E path \in Paths \cup {None} : Close(path)

DoReplay == \E path \in Paths : Replay(path)

Next == DoRender \/ DoClose \/ DoReplay \/ Step

Spec == Init /\ [][Next]_vars

\* TABLE[a], TABLE[b]: two fields of one header table are looked up
Lookup(t, a, b) ==
    /\ lookup' = [table |-> t, a |-> a, b |-> b,
                  ia |-> TableOf(t)[a], ib |-> TableOf(t)[b]]
    /\ UNCHANGED <<time, state, P_gen_potential, e_loss, penalty, render_mode,
                   render_history, http_server, ws_server, running, started,
                   files, recorded, log, n_renders, op, calls, raised, ret>>

DoLookup ==
    \E t \in Tables : \E i, j \in 1..Len(HeadersOf(t)) :
        Lookup(t, HeadersOf(t)[i], HeadersOf(t)[j])

SpecH == Init /\ [][DoLookup]_vars

(* ------------------------- reading the call trace ---------------------- *)

IsInit(c) == c.call = "_init_render"
IsUpdate(c) == c.call = "_update_render"
IsPush(c) == c.call = "rendering.update"
IsStart(c) == c.call = "rendering.start"
IsStop(c) == c.call = "rendering.close"

Inits == SelectSeq(calls, IsInit)
Updates == SelectSeq(calls, IsUpdate)
Pushes == SelectSeq(calls, IsPush)
Starts == SelectSeq(calls, IsStart)
Stops == SelectSeq(calls, IsStop)

\* the row Update appends for one logged call
RowOf(l) == Row([time |-> l.time, state_values |-> l.state_values,
                 potential |-> l.potential, costs |-> l.costs])

\* the record a save session has accumulated: title/specs, then the updates
Accumulated ==
    <<Row([title |-> title, specs |-> ListOfLists(network_specs)])>>
        \o [i \in 1..Len(log) |-> RowOf(log[i])]

(* -------------------------------- claims ------------------------------- *)

\* C1: whenever the render mode is 'save', close() without a path raises
\* ValueError.
C1_CloseNoPathRaises ==
    (op.name = "close" /\ op.pre = "save" /\ op.arg = None)
        => raised = "ValueError"

\* C1 witness: close() without a path after two save-mode render calls
C1_Witness ==
    /\ op.name = "close" /\ op.pre = "save" /\ op.arg = None
    /\ render_history[1] = "frame" /\ Len(render_history[2]) = 3

\* C2 as claimed: a render call given an unsupported mode raises
\* NotImplementedError in every life-cycle state.
C2_InvalidModeAlwaysRaises ==
    (op.name = "render" /\ op.arg \notin ValidModes)
        => raised = "NotImplementedError"

\* C3 as claimed: replay(path) hands Update, for each step i in order, the
\* state values, the potential and the cost pair recorded for step i.
C3_ReplayRoundTrip ==
    (op.name = "replay" /\ raised = NoExc) =>
        LET rec == recorded[op.arg][2]
        IN  /\ Len(Updates) = Len(rec) - 1
            /\ \A i \in 1..Len(Updates) :
                  /\ Updates[i].state_values = rec[i + 1].state_values
                  /\ Updates[i].potential = rec[i + 1].potential
                  /\ Updates[i].costs = rec[i + 1].costs

C5_CloseReturnsRecord ==
    (op.name = "close" /\ op.pre = "save" /\ op.arg # None) =>
        /\ raised = NoExc
        /\ ret[1] = "frame"
        /\ Len(ret[2]) >= 1
        /\ ret[2] = Accumulated
        /\ op.arg \in DOMAIN files
        /\ files[op.arg] = to_csv(ret[2])

\* C5 witness: close(path) after two updates in save mode
C5_Witness ==
    /\ op.name = "close" /\ op.pre = "save" /\ op.arg # None
    /\ Len(log) = 2

\* C6 as claimed: Initialize runs only from the uninitialized state, and at
\* most one server pair is up at any time.
C6_InitOnlyWhenUninitialized ==
    /\ (Len(Inits) > 0 => op.pre = None)
    /\ Cardinality(running) <= 1

\* C7: a replay that returns made one initialization, then one Update per
\* stored step row in stored order, then closed: its server is down and the
\* render mode is None.
C7_ReplayInitUpdatesClose ==
    (op.name = "replay" /\ raised = NoExc) =>
        LET text == files[op.arg]
            n == Len(text) - 1
        IN  /\ Len(Inits) = 1 /\ IsInit(calls[1])
            /\ Len(Starts) = 1 /\ IsStart(calls[2])
            /\ Len(Updates) = n /\ Len(Pushes) = n
            /\ Len(calls) = 2 * n + 3
            /\ \A i \in 1..n :
                  /\ IsUpdate(calls[2 * i + 1]) /\ IsPush(calls[2 * i + 2])
                  /\ Str(Updates[i].time) = text[i + 1].time
                  /\ Str(Updates[i].state_values) = text[i + 1].state_values
                  /\ Str(Updates[i].potential) = text[i + 1].potential
                  /\ Pushes[i].server = Starts[1].server
            /\ Len(Stops) = 1 /\ IsStop(calls[Len(calls)])
            /\ Stops[1].server = Starts[1].server
            /\ Starts[1].server \notin running
            /\ render_mode = None

\* C7 witness: a replay of a file with two step rows has returned
C7_Witness ==
    /\ op.name = "replay" /\ raised = NoExc
    /\ Len(files[op.arg]) = 3

\* C8: the files change only in a close call that is given a path, made in
\* save mode; a render call never changes them.
C8_SavedOnlyByClose ==
    [][/\ (files' # files =>
              render_mode = "save" /\ \E path \in Paths : Close(path))
       /\ (DoRender => files' = files)]_vars

\* C8 witness: a full save session and nothing on disk
C8_Witness ==
    /\ render_mode = "save" /\ n_renders = MaxRows
    /\ Len(render_history[2]) = MaxRows + 1
    /\ DOMAIN files = {}

\* C9: each table maps every field name to its position in its header list:
\* the indices are pairwise distinct and exactly 0..n-1 (6, 16, 11 fields).
C9_HeaderIndices ==
    /\ Len(headers_bus) = 6 /\ Len(headers_dev) = 16 /\ Len(headers_branch) = 11
    /\ lookup.table # None =>
          LET h == HeadersOf(lookup.table)
              tab == TableOf(lookup.table)
          IN  /\ lookup.ia \in 0..(Len(h) - 1)
              /\ h[lookup.ia + 1] = lookup.a
              /\ (lookup.a # lookup.b => lookup.ia # lookup.ib)
              /\ DOMAIN tab = {h[i] : i \in 1..Len(h)}
              /\ {tab[k] : k \in DOMAIN tab} = 0..(Len(h) - 1)

\* C9 witness: the last and the first field of the device table were looked up
C9_Witness ==
    /\ lookup.table = "DEV_H" /\ lookup.a = "EFF" /\ lookup.b = "BUS_I"
    /\ lookup.ia = 15 /\ lookup.ib = 0

\* C10: the first render call initializes and then makes one Update, a later
\* one makes one Update; after k >= 1 render calls a save session holds k+1
\* rows: title/specs first, then k rows of time, state_values, potential, costs.
C10_RowsPerRender ==
    /\ (op.name = "render" /\ raised = NoExc) =>
          /\ Len(Updates) = 1
          /\ (op.pre = None => Len(Inits) = 1 /\ IsInit(calls[1]))
          /\ (op.pre # None => Len(Inits) = 0)
          /\ n_renders >= 1
    /\ (render_mode = "save" /\ n_renders >= 1) =>
          LET rows == render_history[2]
          IN  /\ Len(rows) = n_renders + 1
              /\ \A c \in Columns :
                    rows[1][c] # NaN <=> c \in {"title", "specs"}
              /\ \A i \in 2..Len(rows) : \A c \in Columns :
                    rows[i][c] # NaN <=> c \notin {"title", "specs"}

\* C10 witness: two render calls in save mode, three rows
C10_Witness ==
    /\ op.name = "render" /\ op.pre = "save" /\ render_mode = "save"
    /\ n_renders = 2 /\ Len(render_history[2]) = 3

\* C11 as claimed: the row a save session appends records the timestamp that
\* was passed to Update (the one human mode pushes to the server), so a
\* replay shows the timestamps of live rendering.
C11_RowTimeIsUpdateTime ==
    (render_mode = "save" /\ render_history[1] = "frame") =>
        \A i \in 1..Len(log) :
            /\ i + 1 <= Len(render_history[2])
            /\ render_history[2][i + 1].time = log[i].cur_time

\* the fields and the world a rendering session lives in
session == <<render_mode, render_history, http_server, ws_server, running,
             started, files, log>>

\* C12: a close() that raises ValueError in save mode leaves the session as
\* it was (mode 'save', every row kept), so that close(path) then succeeds
\* and returns every row accumulated before the failed call.
C12_FailedCloseKeepsSession ==
    [][(render_mode = "save" /\ Close(None)) =>
          /\ raised' = "ValueError"
          /\ UNCHANGED session
          /\ render_mode' = "save"
          /\ render_history'[2] = Accumulated
          /\ \A path \in Paths :
                LET r == close(Cur', path)
                IN  /\ r.raised = NoExc
                    /\ r.ret = render_history
                    /\ r.files[path] = to_csv(Accumulated)
      ]_vars

\* C12 witness: close() has failed on a save session holding two step rows
C12_Witness ==
    /\ op.name = "close" /\ op.arg = None /\ raised = "ValueError"
    /\ render_mode = "save" /\ Len(log) = 2 /\ Len(render_history[2]) = 3

\* C13: a render call that raises NotImplementedError from the uninitialized
\* state leaves rendering uninitialized (mode None, no server started, no
\* record created), and a render call with a valid mode then initializes.
C13_FailedRenderKeepsUninitialized ==
    [][\A mode \in Modes :
          (render_mode = None /\ Render(mode)
              /\ raised' = "NotImplementedError") =>
              /\ UNCHANGED session
              /\ render_mode' = None
              /\ calls' = <<>>
              /\ \A m \in ValidModes :
                    LET r == render(Cur', m)
                    IN  /\ r.raised = NoExc
                        /\ r.render_mode = m
                        /\ Len(SelectSeq(r.calls, IsInit)) = 1
                        /\ Len(r.log) = 1
      ]_vars

\* C13 witness: render('video') has failed on an uninitialized session that
\* had been used before
C13_Witness ==
    /\ op.name = "render" /\ op.arg = "video" /\ op.pre = None
    /\ raised = "NotImplementedError" /\ render_mode = None
    /\ render_history[1] = "frame"

\* C14: a close call that does not fail leaves the render mode None, and a
\* close call on an uninitialized session, with or without a path, changes
\* nothing: no server stopped, no file written, nothing raised, None returned.
C14_CloseIdempotent ==
    [][\A path \in Paths \cup {None} :
          Close(path) =>
              /\ (raised' = NoExc => render_mode' = None)
              /\ (render_mode = None =>
                    /\ raised' = NoExc
                    /\ ret' = PyNone
                    /\ calls' = <<>>
                    /\ UNCHANGED session)
      ]_vars

\* C14 witness: close(path) right after the close that stopped the server
C14_Witness ==
    /\ op.name = "close" /\ op.pre = None /\ op.arg \in Paths
    /\ raised = NoExc /\ started = 1 /\ running = {}
    /\ DOMAIN files = {}

====
